---- MODULE Spec2Model ----
(***************************************************************************)
(* A model of tue's rotation conversions (include/tue/transform.hpp) and   *)
(* of the 3-column and 4-column matrix families (include/tue/detail_/      *)
(* mat3xR.hpp, mat4xR.hpp).                                                *)
(*                                                                         *)
(* Vectors are functions over 0..n-1, as the code indexes them; a matrix   *)
(* is a function over its column indices 0..C-1 whose values are column    *)
(* vectors over 0..R-1 (impl_.columns).                                    *)
(***************************************************************************)
EXTENDS Integers, Sequences, FiniteSets, TLC

VARIABLES
    arg,        \* the call's arguments: x, y, z and the angle / fourth component
    angle,      \* what the name `angle` denotes outside any parameter list
    v,          \* what the name `v` denotes outside any parameter list
    top,        \* the transform function called last
    tres,       \* its result
    m,          \* the matrix at hand
    src,        \* the operand the last matrix operation read
    src2,       \* the operand the operation before it read
    mop,        \* the last matrix operation
    mop2,       \* the matrix operation before it
    sarg,       \* the scalar the last scalar construction was given
    steps,      \* matrix operations applied so far
    lhs,        \* the left (or only) matrix operand of an operator call
    rhs,        \* the right matrix operand
    scal,       \* the scalar operand
    aop,        \* the operator called last
    ares,       \* what it returned (for a compound assignment: the receiver)
    self,       \* a matrix that is mutated in place
    self0,      \* the value it started with
    calls,      \* the calls made on self, in order
    href,       \* what the caller holds: a reference into self, or a copy
    nops,       \* the number of those calls
    bal,        \* increments minus decrements made on self
    ret,        \* what the last call returned, and self as it was before it
    store,      \* the matrices in memory: one owned by each caller, one shared
    store0,     \* the matrices as they were before any caller ran
    job,        \* the operation each caller runs
    pc,         \* the steps of its operation each caller has made
    out         \* what each caller's expression has yielded so far

tvars == <<arg, angle, v, top, tres>>
mvars == <<m, src, src2, mop, mop2, sarg, steps>>
avars == <<lhs, rhs, scal, aop, ares>>
svars == <<self, self0, calls, href, nops, bal, ret>>
cvars == <<store, store0, job, pc, out>>
vars == <<arg, angle, v, top, tres, m, src, src2, mop, mop2, sarg, steps,
          lhs, rhs, scal, aop, ares, self, self0, calls, href, nops, bal, ret,
          store, store0, job, pc, out>>

\* the operator-call state and the in-place state while they are not in use
IdleA ==
    /\ lhs = <<>>
    /\ rhs = <<>>
    /\ scal = 0
    /\ aop = [f |-> "none", op |-> "none"]
    /\ ares = <<>>

IdleS ==
    /\ self = <<>>
    /\ self0 = <<>>
    /\ calls = <<>>
    /\ href = [kind |-> "none", via |-> "none", idx |-> 0, val |-> <<>>]
    /\ nops = 0
    /\ bal = 0
    /\ ret = [val |-> <<>>, pre |-> <<>>]

\* the callers' state while no caller runs
IdleC ==
    /\ store = <<>>
    /\ store0 = <<>>
    /\ job = <<>>
    /\ pc = <<>>
    /\ out = <<>>

(***************************************************************************)
(* Bounds of the model.                                                    *)
(***************************************************************************)
\* Floating values are multiples of 1/Scale; arithmetic rounds toward zero.
Scale == 2
\* Finite argument components range over -MaxV..MaxV (in units of 1/Scale).
MaxV == 2
\* Matrix operations applied in one behaviour.
MaxSteps == 3
\* Input matrices are drawn with seeds 0..MaxSeed.
MaxSeed == 2
\* Scalars handed to the scalar constructor range over 0..MaxScalar.
MaxScalar == 2

(***************************************************************************)
(* The scalar layer (math.hpp): a floating type with NaN and infinities.   *)
(* A finite value n stands for n/Scale.                                    *)
(***************************************************************************)
Fin(n) == [k |-> "fin", n |-> n]
NaN == [k |-> "nan", n |-> 0]
Inf(s) == [k |-> "inf", n |-> s]

Sgn(n) == IF n > 0 THEN 1 ELSE IF n < 0 THEN -1 ELSE 0

\* p / q rounded toward zero, q > 0
TDiv(p, q) == IF p >= 0 THEN p \div q ELSE -((-p) \div q)

\* a + b
fadd(a, b) ==
    IF a.k = "nan" \/ b.k = "nan" THEN NaN
    ELSE IF a.k = "inf" /\ b.k = "inf" THEN (IF a.n = b.n THEN a ELSE NaN)
    ELSE IF a.k = "inf" THEN a
    ELSE IF b.k = "inf" THEN b
    ELSE Fin(a.n + b.n)

\* a * b
fmul(a, b) ==
    IF a.k = "nan" \/ b.k = "nan" THEN NaN
    ELSE IF a.k = "inf" \/ b.k = "inf"
         THEN (IF Sgn(a.n) * Sgn(b.n) = 0 THEN NaN ELSE Inf(Sgn(a.n) * Sgn(b.n)))
    ELSE Fin(TDiv(a.n * b.n, Scale))

\* a / b: 0/0 is NaN, x/0 is an infinity
fdiv(a, b) ==
    IF a.k = "nan" \/ b.k = "nan" THEN NaN
    ELSE IF a.k = "inf" /\ b.k = "inf" THEN NaN
    ELSE IF a.k = "inf" THEN Inf(IF b.n < 0 THEN -a.n ELSE a.n)
    ELSE IF b.k = "inf" THEN Fin(0)
    ELSE IF b.n = 0 THEN (IF a.n = 0 THEN NaN ELSE Inf(Sgn(a.n)))
    ELSE Fin(Sgn(a.n) * Sgn(b.n)
             * TDiv((a.n * Sgn(a.n)) * Scale, b.n * Sgn(b.n)))

\* the integer square root
ISqrt(n) == CHOOSE r \in 0..n : r * r <= n /\ (r + 1) * (r + 1) > n

\* math::sqrt
fsqrt(a) ==
    IF a.k = "nan" THEN NaN
    ELSE IF a.k = "inf" THEN (IF a.n > 0 THEN a ELSE NaN)
    ELSE IF a.n < 0 THEN NaN
    ELSE Fin(ISqrt(a.n * Scale))

\* math::sin, by its series x - x^3/6
fsin(a) ==
    IF a.k # "fin" THEN NaN
    ELSE Fin(a.n - TDiv(a.n * a.n * a.n, 6 * Scale * Scale))

\* math::cos, by its series 1 - x^2/2
fcos(a) ==
    IF a.k # "fin" THEN NaN
    ELSE Fin(Scale - TDiv(a.n * a.n, 2 * Scale))

\* math::sincos(x, s, c): both at once
sincos(a) == [s |-> fsin(a), c |-> fcos(a)]

\* math::not_equal: IEEE comparison, NaN differs from everything
not_equal(a, b) == a.k = "nan" \/ b.k = "nan" \/ a # b

\* math::select(condition, value, otherwise)
select(cond, value, otherwise) == IF cond THEN value ELSE otherwise

(***************************************************************************)
(* The vector family (vec.hpp).                                            *)
(***************************************************************************)
vec3(x, y, z) == (0 :> x) @@ (1 :> y) @@ (2 :> z)
vec4(x, y, z, w) == (0 :> x) @@ (1 :> y) @@ (2 :> z) @@ (3 :> w)

\* vec3<T>::z_axis()
z_axis == vec3(Fin(0), Fin(0), Fin(1 * Scale))

\* vec * scalar
vec_times(u, s) == [i \in DOMAIN u |-> fmul(u[i], s)]

\* vec / scalar
vec_over(u, s) == [i \in DOMAIN u |-> fdiv(u[i], s)]

\* math::length(v) = sqrt(dot(v, v))
length(u) ==
    fsqrt(fadd(fadd(fmul(u[0], u[0]), fmul(u[1], u[1])), fmul(u[2], u[2])))

(***************************************************************************)
(* transform.hpp                                                           *)
(***************************************************************************)
\* axis_angle without the select: the quotient is returned as it is
axis_angle_noselect(u) ==
    LET ang == length(u)
        axis == vec_over(u, ang)
    IN  vec4(axis[0], axis[1], axis[2], ang)

\* axis_angle(const vec3<T>& v)
axis_angle_vec3(u) ==
    LET ang == length(u)
        axis == select(not_equal(ang, Fin(0)), vec_over(u, ang), z_axis)
    IN  vec4(axis[0], axis[1], axis[2], ang)

\* axis_angle(x, y, z)
axis_angle_xyz(x, y, z) == axis_angle_vec3(vec3(x, y, z))

\* rotation_vec(const vec3<T>& axis, const T& angle)
rotation_vec_pair(axis, a) == vec_times(axis, a)

\* rotation_vec(x, y, z, angle)
rotation_vec_xyza(x, y, z, a) == vec3(fmul(x, a), fmul(y, a), fmul(z, a))

\* rotation_vec of a packed vector with the third product taken from v[2] twice
rotation_vec_vec4_z2(u) ==
    vec3(fmul(u[0], u[3]), fmul(u[1], u[3]), fmul(u[2], u[2]))

\* rotation_vec(const vec4<T>& v)
rotation_vec_vec4(u) ==
    vec3(fmul(u[0], u[3]), fmul(u[1], u[3]), fmul(u[2], u[3]))

\* U(angle) / U(2)
half(a) == fdiv(a, Fin(2 * Scale))

\* rotation_quat(const vec3<T>& axis, const T& angle)
rotation_quat_pair(axis, a) ==
    LET sc == sincos(half(a))
        xyz == vec_times(axis, sc.s)
    IN  vec4(xyz[0], xyz[1], xyz[2], sc.c)

\* rotation_quat(x, y, z, angle)
rotation_quat_xyza(x, y, z, a) ==
    LET sc == sincos(half(a))
    IN  vec4(fmul(x, sc.s), fmul(y, sc.s), fmul(z, sc.s), sc.c)

\* rotation_quat(const vec4<T>& v). Its body reads `angle`, which is neither
\* a parameter nor a local of the function: the name denotes whatever is
\* called angle where the body is compiled (the variable angle), never v[3].
rotation_quat_vec4(u) ==
    LET sc == sincos(half(angle))
    IN  vec4(fmul(u[0], sc.s), fmul(u[1], sc.s), fmul(u[2], sc.s), sc.c)

\* rotation_quat of a rotation vector packed with its length, not normalised
rotation_quat_vec3_raw(u) ==
    rotation_quat_vec4(vec4(u[0], u[1], u[2], length(u)))

\* rotation_quat(const vec3<T>& v)
rotation_quat_vec3(u) == rotation_quat_vec4(axis_angle_vec3(u))

\* rotation_quat(x, y, z). Its body reads `v`, which is neither a parameter
\* nor a local of the function: the name denotes whatever is called v where
\* the body is compiled (the variable v), never (x, y, z).
rotation_quat_xyz(x, y, z) == rotation_quat_vec4(axis_angle_vec3(v))

(***************************************************************************)
(* The transform functions as a state machine: the arguments are drawn in  *)
(* the initial state and every action is one call.                         *)
(***************************************************************************)
Vals == {Fin(n) : n \in -MaxV..MaxV}

\* the vectors the outer name v may denote
OuterVecs == {vec3(Fin(0), Fin(0), Fin(0)), vec3(Fin(MaxV), Fin(0), Fin(0))}

NoVec == [i \in {} |-> Fin(0)]

ArgXYZ == vec3(arg[0], arg[1], arg[2])

InitT ==
    /\ arg \in [0..3 -> Vals]
    /\ angle \in Vals
    /\ v \in OuterVecs
    /\ top = "none"
    /\ tres = NoVec
    /\ m = <<>>
    /\ src = <<>>
    /\ src2 = <<>>
    /\ mop = "none"
    /\ mop2 = "none"
    /\ sarg = 0
    /\ steps = 0
    /\ IdleA
    /\ IdleS
    /\ IdleC

\* one call: every behaviour makes one call on the arguments drawn, and may
\* hand its result on to a second
Call(name, result) ==
    /\ top' = name
    /\ tres' = result
    /\ UNCHANGED <<arg, angle, v>>
    /\ UNCHANGED <<mvars, avars, svars, cvars>>

AxisAngleVec3 ==
    /\ top = "none"
    /\ Call("axis_angle_vec3", axis_angle_vec3(ArgXYZ))

AxisAngleXYZ ==
    /\ top = "none"
    /\ Call("axis_angle_xyz", axis_angle_xyz(arg[0], arg[1], arg[2]))

RotationVecPair ==
    /\ top = "none"
    /\ Call("rotation_vec_pair", rotation_vec_pair(ArgXYZ, arg[3]))

RotationVecXYZA ==
    /\ top = "none"
    /\ Call("rotation_vec_xyza", rotation_vec_xyza(arg[0], arg[1], arg[2], arg[3]))

RotationVecVec4 ==
    /\ top = "none"
    /\ Call("rotation_vec_vec4", rotation_vec_vec4(arg))

RotationQuatPair ==
    /\ top = "none"
    /\ Call("rotation_quat_pair", rotation_quat_pair(ArgXYZ, arg[3]))

RotationQuatXYZA ==
    /\ top = "none"
    /\ Call("rotation_quat_xyza", rotation_quat_xyza(arg[0], arg[1], arg[2], arg[3]))

RotationQuatVec4 ==
    /\ top = "none"
    /\ Call("rotation_quat_vec4", rotation_quat_vec4(arg))

RotationQuatVec3 ==
    /\ top = "none"
    /\ Call("rotation_quat_vec3", rotation_quat_vec3(ArgXYZ))

RotationQuatXYZ ==
    /\ top = "none"
    /\ Call("rotation_quat_xyz", rotation_quat_xyz(arg[0], arg[1], arg[2]))

\* rotation_quat applied by the caller to the vector axis_angle returned
RotationQuatOfAxisAngle ==
    /\ top = "axis_angle_vec3"
    /\ Call("rotation_quat_of_axis_angle", rotation_quat_vec4(tres))

NextT ==
    \/ AxisAngleVec3
    \/ AxisAngleXYZ
    \/ RotationVecPair
    \/ RotationVecXYZA
    \/ RotationVecVec4
    \/ RotationQuatPair
    \/ RotationQuatXYZA
    \/ RotationQuatVec4
    \/ RotationQuatVec3
    \/ RotationQuatXYZ
    \/ RotationQuatOfAxisAngle

SpecT == InitT /\ [][NextT]_vars

(***************************************************************************)
(* Claims about transform.hpp, checked under SpecT.                        *)
(***************************************************************************)
Zero == Fin(0)
One == Fin(1 * Scale)

\* C1: axis_angle of a rotation vector whose length is exactly 0 returns
\* exactly (0, 0, 1, 0): no NaN or infinity of the division by the zero
\* length reaches the result.
C1_AxisAngleZeroLength ==
    (top \in {"axis_angle_vec3", "axis_angle_xyz"} /\ length(ArgXYZ) = Zero)
        => tres = vec4(Zero, Zero, One, Zero)

\* axis_angle has run on the zero vector
C1_Witness ==
    /\ top = "axis_angle_vec3"
    /\ ArgXYZ = vec3(Zero, Zero, Zero)
    /\ tres = vec4(Zero, Zero, One, Zero)

\* C2: rotation_quat of a rotation vector of length 0 returns exactly the
\* identity quaternion (0, 0, 0, 1).
C2_ZeroVectorIdentityQuat ==
    (top = "rotation_quat_vec3" /\ length(ArgXYZ) = Zero)
        => tres = vec4(Zero, Zero, Zero, One)

\* C3: for every rotation vector, rotation_quat(v) is
\* rotation_quat(axis_angle(v)): the call on the rotation vector returns what
\* the packed overload returns on axis_angle's result, and the caller who
\* composes the two calls gets what the call on the rotation vector returns.
C3_RotationQuatComposes ==
    /\ top = "rotation_quat_vec3"
           => tres = rotation_quat_vec4(axis_angle_vec3(ArgXYZ))
    /\ top = "rotation_quat_of_axis_angle" => tres = rotation_quat_vec3(ArgXYZ)

\* the caller composed axis_angle and rotation_quat on a vector whose axis
\* differs from the vector itself, and the quaternion is not the identity
C3_Witness ==
    /\ top = "rotation_quat_of_axis_angle"
    /\ axis_angle_vec3(ArgXYZ) # vec4(arg[0], arg[1], arg[2], length(ArgXYZ))
    /\ tres # vec4(Zero, Zero, Zero, One)

\* C4: rotation_quat(x, y, z) returns the quaternion of the rotation vector
\* (x, y, z), the one rotation_quat(vec3(x, y, z)) returns, and (0, 0, 0, 1)
\* when x = y = z = 0.
C4_RotationQuatScalars ==
    top = "rotation_quat_xyz"
        => /\ tres = rotation_quat_vec3(ArgXYZ)
           /\ ArgXYZ = vec3(Zero, Zero, Zero) => tres = vec4(Zero, Zero, Zero, One)

\* C5: rotation_quat of a packed axis-angle vector takes the angle from the
\* vector's fourth component: it returns (x*s, y*s, z*s, c) with
\* s = sin(v[3]/2), c = cos(v[3]/2), as rotation_quat(vec3(x,y,z), v[3]) and
\* rotation_quat(x, y, z, v[3]) do.
C5_PackedAngleFromFourth ==
    top = "rotation_quat_vec4"
        => /\ tres = vec4(fmul(arg[0], fsin(half(arg[3]))),
                          fmul(arg[1], fsin(half(arg[3]))),
                          fmul(arg[2], fsin(half(arg[3]))),
                          fcos(half(arg[3])))
           /\ tres = rotation_quat_pair(ArgXYZ, arg[3])
           /\ tres = rotation_quat_xyza(arg[0], arg[1], arg[2], arg[3])

\* C6: rotation_vec returns axis * angle componentwise in each of its three
\* overloads, (x*a, y*a, z*a), so the three agree; rotation_vec((0,0,1), a)
\* is (0, 0, a).
C6_RotationVec ==
    top \in {"rotation_vec_pair", "rotation_vec_xyza", "rotation_vec_vec4"}
        => /\ tres = vec3(fmul(arg[0], arg[3]), fmul(arg[1], arg[3]),
                          fmul(arg[2], arg[3]))
           /\ ArgXYZ = vec3(Zero, Zero, One) => tres = vec3(Zero, Zero, arg[3])

\* the packed overload has run on the axis (0, 0, 1) with a nonzero angle
C6_Witness ==
    /\ top = "rotation_vec_vec4"
    /\ ArgXYZ = vec3(Zero, Zero, One)
    /\ arg[3] = Fin(MaxV)
    /\ tres = vec3(Zero, Zero, Fin(MaxV))

(***************************************************************************)
(* mat3xR.hpp and mat4xR.hpp, over an integer component type.              *)
(***************************************************************************)
ColCounts == {3, 4}
RowCounts == {2, 3, 4}

Cols(mm) == Cardinality(DOMAIN mm)
Rows(mm) == Cardinality(DOMAIN mm[0])

ivec3(x, y, z) == (0 :> x) @@ (1 :> y) @@ (2 :> z)
ivec4(x, y, z, w) == (0 :> x) @@ (1 :> y) @@ (2 :> z) @@ (3 :> w)

\* vec<T, R>(const vec<T, 4>&): the first R components
vec_R(R, u) == [j \in 0..(R - 1) |-> u[j]]

\* vec<T, R>::extend_(v, z, w): v cut or lengthened to R components, a
\* missing third component taken from z and a missing fourth from w
extend_(R, u, z, w) ==
    [j \in 0..(R - 1) |-> IF j \in DOMAIN u THEN u[j]
                          ELSE IF j = 2 THEN z ELSE w]

\* mat<T, 3, R>::mat(const T& s)
mat3_scalar(R, s) ==
    ivec3(vec_R(R, ivec4(s, 0, 0, 0)),
          vec_R(R, ivec4(0, s, 0, 0)),
          vec_R(R, ivec4(0, 0, s, 0)))

\* the 4-column scalar constructor with its last column copied from the third
mat4_scalar_copied(R, s) ==
    ivec4(vec_R(R, ivec4(s, 0, 0, 0)),
          vec_R(R, ivec4(0, s, 0, 0)),
          vec_R(R, ivec4(0, 0, s, 0)),
          vec_R(R, ivec4(0, 0, s, 0)))

\* mat<T, 4, R>::mat(const T& s)
mat4_scalar(R, s) ==
    ivec4(vec_R(R, ivec4(s, 0, 0, 0)),
          vec_R(R, ivec4(0, s, 0, 0)),
          vec_R(R, ivec4(0, 0, s, 0)),
          vec_R(R, ivec4(0, 0, 0, s)))

\* mat<T, 2, R>::mat(const T& s), of mat2xR.hpp
mat2_scalar(R, s) ==
    (0 :> vec_R(R, ivec4(s, 0, 0, 0))) @@ (1 :> vec_R(R, ivec4(0, s, 0, 0)))

\* the 3-column constructor from two columns with its third column left zero
mat3_from_mat2_nofill(R, other) ==
    ivec3(extend_(R, other[0], 0, 0),
          extend_(R, other[1], 0, 0),
          vec_R(R, ivec4(0, 0, 0, 0)))

\* mat<T, 3, R>::mat(const mat<T, 2, OtherR>&)
mat3_from_mat2(R, other) ==
    ivec3(extend_(R, other[0], 0, 0),
          extend_(R, other[1], 0, 0),
          vec_R(R, ivec4(0, 0, 1, 0)))

\* mat<T, 3, R>::mat(const mat<T, 3, OtherR>&)
mat3_from_mat3(R, other) ==
    ivec3(extend_(R, other[0], 0, 0),
          extend_(R, other[1], 0, 0),
          extend_(R, other[2], 1, 0))

\* the truncation with its last column read one column too far
mat3_from_mat4_shifted(R, other) ==
    ivec3(extend_(R, other[0], 0, 0),
          extend_(R, other[1], 0, 0),
          extend_(R, other[3], 1, 0))

\* mat<T, 3, R>::mat(const mat<T, 4, OtherR>&)
mat3_from_mat4(R, other) ==
    ivec3(extend_(R, other[0], 0, 0),
          extend_(R, other[1], 0, 0),
          extend_(R, other[2], 1, 0))

\* mat<T, 4, R>::mat(const mat<T, 2, OtherR>&)
mat4_from_mat2(R, other) ==
    ivec4(extend_(R, other[0], 0, 0),
          extend_(R, other[1], 0, 0),
          vec_R(R, ivec4(0, 0, 1, 0)),
          vec_R(R, ivec4(0, 0, 0, 1)))

\* the extension with the third column filled like the first two
mat4_from_mat3_zerofill(R, other) ==
    ivec4(extend_(R, other[0], 0, 0),
          extend_(R, other[1], 0, 0),
          extend_(R, other[2], 0, 0),
          vec_R(R, ivec4(0, 0, 0, 1)))

\* the 4-column constructor from three columns with the first two exchanged
mat4_from_mat3_swapped(R, other) ==
    ivec4(extend_(R, other[1], 0, 0),
          extend_(R, other[0], 0, 0),
          extend_(R, other[2], 1, 0),
          vec_R(R, ivec4(0, 0, 0, 1)))

\* mat<T, 4, R>::mat(const mat<T, 3, OtherR>&)
mat4_from_mat3(R, other) ==
    ivec4(extend_(R, other[0], 0, 0),
          extend_(R, other[1], 0, 0),
          extend_(R, other[2], 1, 0),
          vec_R(R, ivec4(0, 0, 0, 1)))

\* mat<T, 4, R>::mat(const mat<T, 4, OtherR>&)
mat4_from_mat4(R, other) ==
    ivec4(extend_(R, other[0], 0, 0),
          extend_(R, other[1], 0, 0),
          extend_(R, other[2], 1, 0),
          extend_(R, other[3], 0, 1))

\* mat<T, C, R>(s) for the column count C
mat_scalar(C, R, s) == IF C = 3 THEN mat3_scalar(R, s) ELSE mat4_scalar(R, s)

\* mat<T, C, R>::identity()
identity(C, R) == mat_scalar(C, R, 1)

\* mat<T, C, R>::zero()
zero(C, R) == mat_scalar(C, R, 0)

\* mat<T, C, R>(other): the constructor overload resolution picks
mat_from(C, R, other) ==
    IF C = 3
    THEN CASE Cols(other) = 2 -> mat3_from_mat2(R, other)
           [] Cols(other) = 3 -> mat3_from_mat3(R, other)
           [] Cols(other) = 4 -> mat3_from_mat4(R, other)
    ELSE CASE Cols(other) = 2 -> mat4_from_mat2(R, other)
           [] Cols(other) = 3 -> mat4_from_mat3(R, other)
           [] Cols(other) = 4 -> mat4_from_mat4(R, other)

\* mat<T, 3, R>::column(i), mat<T, 4, R>::column(i)
column(mm, i) == mm[i]

\* mat<T, 3, R>::row(j)
row3(mm, j) == ivec3(mm[0][j], mm[1][j], mm[2][j])

\* mat<T, 4, R>::row(j)
row4(mm, j) == ivec4(mm[0][j], mm[1][j], mm[2][j], mm[3][j])

\* m.row(j) for the class of m
row(mm, j) == IF Cols(mm) = 3 THEN row3(mm, j) ELSE row4(mm, j)

\* the transpose with its last column gathered from the row before
transpose3_repeat(mm) == ivec3(row(mm, 0), row(mm, 1), row(mm, 1))

\* math::transpose(const mat<T, R, 3>&), returning mat<T, 3, R>
transpose3(mm) == ivec3(row(mm, 0), row(mm, 1), row(mm, 2))

\* math::transpose(const mat<T, R, 4>&), returning mat<T, 4, R>
transpose4(mm) == ivec4(row(mm, 0), row(mm, 1), row(mm, 2), row(mm, 3))

\* transpose(m) for the row count of m
transpose(mm) == IF Rows(mm) = 3 THEN transpose3(mm) ELSE transpose4(mm)

(***************************************************************************)
(* The matrix operations as a state machine: a matrix is drawn in the      *)
(* initial state and every action is one construction or one call on it.   *)
(***************************************************************************)
\* component (i, j) of the input matrix drawn with seed k: the components of
\* one matrix differ from each other, and for k >= 2 from 0 and 1 as well
Entry(k, i, j) == 4 * i + j + k

InputMats ==
    {[i \in 0..(C - 1) |-> [j \in 0..(R - 1) |-> Entry(k, i, j)]] :
        C \in {2} \cup ColCounts, R \in RowCounts, k \in 0..MaxSeed}

NoMat == <<>>

InitM ==
    /\ m \in InputMats
    /\ src = NoMat
    /\ src2 = NoMat
    /\ mop = "none"
    /\ mop2 = "none"
    /\ sarg = 0
    /\ steps = 0
    /\ arg = [i \in 0..3 |-> Fin(0)]
    /\ angle = Fin(0)
    /\ v = vec3(Fin(0), Fin(0), Fin(0))
    /\ top = "none"
    /\ tres = NoVec
    /\ IdleA
    /\ IdleS
    /\ IdleC

\* a construction from no matrix: nothing is read
Construct(name, result, s) ==
    /\ steps < MaxSteps
    /\ steps' = steps + 1
    /\ m' = result
    /\ src' = NoMat
    /\ src2' = NoMat
    /\ mop' = name
    /\ mop2' = "none"
    /\ sarg' = s
    /\ UNCHANGED <<tvars, avars, svars, cvars>>

\* an operation that reads the matrix at hand and yields a new one
Apply(name, result) ==
    /\ steps < MaxSteps
    /\ steps' = steps + 1
    /\ m' = result
    /\ src' = m
    /\ src2' = src
    /\ mop' = name
    /\ mop2' = mop
    /\ UNCHANGED sarg
    /\ UNCHANGED <<tvars, avars, svars, cvars>>

ScalarCtor ==
    \E C \in ColCounts, R \in RowCounts, s \in 0..MaxScalar :
        Construct("scalar", mat_scalar(C, R, s), s)

Identity ==
    \E C \in ColCounts, R \in RowCounts :
        Construct("identity", identity(C, R), 1)

\* mat<T, 2, R>::identity(), a source of the constructors from two columns
Identity2 ==
    \E R \in RowCounts :
        Construct("identity2", mat2_scalar(R, 1), 1)

ZeroMat ==
    \E C \in ColCounts, R \in RowCounts :
        Construct("zero", zero(C, R), 0)

\* mat<T, C, R>(m): extension, truncation or both
Convert ==
    \E C \in ColCounts, R \in RowCounts :
        Apply("convert", mat_from(C, R, m))

\* transpose(m), for the shapes whose row() is in mat3xR.hpp or mat4xR.hpp
Transpose ==
    /\ Cols(m) \in ColCounts
    /\ Rows(m) \in ColCounts
    /\ Apply("transpose", transpose(m))

NextM ==
    \/ ScalarCtor
    \/ Identity
    \/ Identity2
    \/ ZeroMat
    \/ Convert
    \/ Transpose

SpecM == InitM /\ [][NextM]_vars

(***************************************************************************)
(* Claims about the matrix families, checked under SpecM.                  *)
(***************************************************************************)
ColIdx(mm) == 0..(Cols(mm) - 1)
RowIdx(mm) == 0..(Rows(mm) - 1)

\* the k-th basis vector over 0..n-1: 1 at index k (if there is one), else 0
Basis(n, k) == [idx \in 0..(n - 1) |-> IF idx = k THEN 1 ELSE 0]

\* C7: mat(s) has s at column i, row j when i = j and 0 elsewhere, in every
\* shape, square or not; identity() is mat(1) and zero() is mat(0): every
\* component of zero() is 0, and row j / column i of identity() is the
\* basis vector with its 1 at index j / i (the zero vector where a
\* non-square shape has no such index).
C7_ScalarDiagonal ==
    /\ mop = "scalar" =>
           \A i \in ColIdx(m), j \in RowIdx(m) :
               m[i][j] = IF i = j THEN sarg ELSE 0
    /\ mop = "zero" => \A i \in ColIdx(m), j \in RowIdx(m) : m[i][j] = 0
    /\ mop = "identity" =>
           /\ \A i \in ColIdx(m), j \in RowIdx(m) :
                  m[i][j] = IF i = j THEN 1 ELSE 0
           /\ \A j \in RowIdx(m) : row(m, j) = Basis(Cols(m), j)
           /\ \A i \in ColIdx(m) : column(m, i) = Basis(Rows(m), i)

\* a non-square matrix was built from a scalar other than 0 and 1
C7_Witness ==
    /\ mop = "scalar"
    /\ Cols(m) = 4
    /\ Rows(m) = 3
    /\ sarg = 2
    /\ m[2][2] = 2
    /\ m[3][2] = 0

\* C8: Matrix<T,C,R> built from Matrix<T,C',R'> with C' <= C holds
\* other[i][j] for i < C' and j < min(R, R'); every other component is 1
\* when i = j and 0 otherwise.
C8_ExtendFill ==
    (mop = "convert" /\ Cols(src) <= Cols(m)) =>
        \A i \in ColIdx(m), j \in RowIdx(m) :
            m[i][j] = IF i < Cols(src) /\ j < Rows(src) THEN src[i][j]
                      ELSE IF i = j THEN 1 ELSE 0

\* a 3x2 matrix without any 0 or 1 was extended to 4x4
C8_Witness ==
    /\ mop = "convert"
    /\ Cols(src) = 3
    /\ Rows(src) = 2
    /\ Cols(m) = 4
    /\ Rows(m) = 4
    /\ \A i \in ColIdx(src), j \in RowIdx(src) : src[i][j] > 1
    /\ m[2][2] = 1
    /\ m[2][3] = 0

\* C9: extending a matrix to a shape with at least as many columns and
\* rows and truncating the result back to the original shape gives the
\* original: 3x3 to 4x4 to 3x3, and every 3xR to 4xR' (R' >= R) to 3xR.
C9_ExtendTruncateRoundTrip ==
    (/\ mop = "convert"
     /\ mop2 = "convert"
     /\ Cols(src2) <= Cols(src)
     /\ Rows(src2) <= Rows(src)
     /\ Cols(m) = Cols(src2)
     /\ Rows(m) = Rows(src2)) => m = src2

\* a 3x3 matrix went to 4x4 and back
C9_Witness ==
    /\ mop = "convert"
    /\ mop2 = "convert"
    /\ Cols(src2) = 3
    /\ Rows(src2) = 3
    /\ Cols(src) = 4
    /\ Rows(src) = 4
    /\ Cols(m) = 3
    /\ Rows(m) = 3
    /\ m = src2
    /\ m[2][2] > 1

\* C23: the shape-changing constructors map identity to identity:
\* Matrix<T,C,R>(Matrix<T,C',R'>::identity()) = Matrix<T,C,R>::identity()
\* for every source shape (2, 3 or 4 columns, 2 to 4 rows) and every target
\* shape of the 3-column and 4-column families.
C23_IdentityToIdentity ==
    (mop = "convert" /\ mop2 \in {"identity", "identity2"}) =>
        /\ m = identity(Cols(m), Rows(m))
        /\ \A i \in ColIdx(m), j \in RowIdx(m) :
               m[i][j] = IF i = j THEN 1 ELSE 0

\* the 2x2 identity was converted to 3x4: the third column is filled in
C23_Witness ==
    /\ mop = "convert"
    /\ mop2 = "identity2"
    /\ Cols(src) = 2
    /\ Rows(src) = 2
    /\ src[0][0] = 1
    /\ src[1][1] = 1
    /\ Cols(m) = 3
    /\ Rows(m) = 4
    /\ m[2][2] = 1
    /\ m[2][3] = 0

\* C24: for a 4x4 matrix m, Matrix<T,4,4>(Matrix<T,3,3>(m)) agrees with m on
\* the upper-left 3x3 block, always, and equals m exactly when the fourth
\* column of m is (0, 0, 0, 1) and the fourth row of m is (0, 0, 0, 1).
C24_TruncateExtend ==
    (/\ mop = "convert"
     /\ mop2 = "convert"
     /\ Cols(src2) = 4
     /\ Rows(src2) = 4
     /\ Cols(src) = 3
     /\ Rows(src) = 3
     /\ Cols(m) = 4
     /\ Rows(m) = 4) =>
        /\ \A i \in 0..2, j \in 0..2 : m[i][j] = src2[i][j]
        /\ (m = src2) <=> (/\ column(src2, 3) = ivec4(0, 0, 0, 1)
                           /\ row4(src2, 3) = ivec4(0, 0, 0, 1))

\* a 4x4 matrix with other components than the identity's, whose fourth
\* column and fourth row are (0, 0, 0, 1), went to 3x3 and back unchanged
C24_Witness ==
    /\ mop = "convert"
    /\ mop2 = "convert"
    /\ Cols(src2) = 4
    /\ Rows(src2) = 4
    /\ Cols(src) = 3
    /\ Rows(src) = 3
    /\ Cols(m) = 4
    /\ Rows(m) = 4
    /\ src2[3] = ivec4(0, 0, 0, 1)
    /\ src2[1][0] > 1
    /\ m = src2

\* a 4x4 matrix whose fourth row is (0, 0, 0, 1) and whose fourth column is
\* not (0, 0, 0, 1) went to 3x3 and back
C24_Partial ==
    /\ mop = "convert"
    /\ mop2 = "convert"
    /\ Cols(src2) = 4
    /\ Rows(src2) = 4
    /\ Cols(src) = 3
    /\ Rows(src) = 3
    /\ Cols(m) = 4
    /\ Rows(m) = 4
    /\ row4(src2, 3) = ivec4(0, 0, 0, 1)
    /\ src2[3] # ivec4(0, 0, 0, 1)
    /\ m # src2

\* C10: transpose gives the matrix t with t[i][j] = m[j][i], of the
\* transposed shape, and transposing twice gives the original, square or
\* not.
C10_Transpose ==
    /\ mop = "transpose" =>
           /\ Cols(m) = Rows(src)
           /\ Rows(m) = Cols(src)
           /\ \A i \in ColIdx(m), j \in RowIdx(m) : m[i][j] = src[j][i]
    /\ (mop = "transpose" /\ mop2 = "transpose") => m = src2

\* a matrix of 3 columns and 4 rows was transposed twice
C10_Witness ==
    /\ mop = "transpose"
    /\ mop2 = "transpose"
    /\ Cols(m) = 3
    /\ Rows(m) = 4
    /\ Cols(src) = 4
    /\ Rows(src) = 3
    /\ m = src2

(***************************************************************************)
(* Arithmetic on matrices with an integral component type (mat3xR.hpp,     *)
(* mat4xR.hpp).  The component type is int; a call whose built-in          *)
(* operation is undefined in C++ (a zero divisor, a shift outside the      *)
(* width of the type or of a negative value) is not made.                  *)
(***************************************************************************)

\* the width of int
IntBits == 32

\* the binary operators a matrix offers with a scalar and with a matrix
BinOps == {"+", "-", "*", "/", "%", "&", "|", "^", "<<", ">>"}

RECURSIVE Pow2(_)
Pow2(n) == IF n = 0 THEN 1 ELSE 2 * Pow2(n - 1)

\* one bit of x & y, x | y, x ^ y
Bit(op, p, q) ==
    IF op = "&" THEN p * q
    ELSE IF op = "|" THEN (IF p + q > 0 THEN 1 ELSE 0)
    ELSE (p + q) % 2

\* x & y, x | y, x ^ y on two's complement integers
RECURSIVE BitOp(_, _, _)
BitOp(op, x, y) ==
    IF x \in {0, -1} /\ y \in {0, -1}
    THEN -Bit(op, -x, -y)
    ELSE Bit(op, x % 2, y % 2) + 2 * BitOp(op, x \div 2, y \div 2)

\* x / y of int: the quotient rounded toward zero
IntQuot(x, y) == Sgn(x) * Sgn(y) * TDiv(x * Sgn(x), y * Sgn(y))

\* x op y has defined behaviour on int
Defined(op, x, y) ==
    IF op \in {"/", "%"} THEN y # 0
    ELSE IF op = "<<"
    THEN x >= 0 /\ y >= 0 /\ y <= IntBits - 2 /\ x \div Pow2(IntBits - 2 - y) < 2
    ELSE IF op = ">>" THEN x >= 0 /\ y >= 0 /\ y <= IntBits - 2
    ELSE TRUE

\* x op y of the built-in operator op on int
ScalarOp(op, x, y) ==
    CASE op = "+" -> x + y
      [] op = "-" -> x - y
      [] op = "*" -> x * y
      [] op = "/" -> IntQuot(x, y)
      [] op = "%" -> x - y * IntQuot(x, y)
      [] op \in {"&", "|", "^"} -> BitOp(op, x, y)
      [] op = "<<" -> x * Pow2(y)
      [] op = ">>" -> x \div Pow2(y)

\* vec op scalar, scalar op vec and vec op vec (vec.hpp): componentwise,
\* the operands in the order written
vec_op_vs(op, u, s) == [j \in DOMAIN u |-> ScalarOp(op, u[j], s)]
vec_op_sv(op, s, u) == [j \in DOMAIN u |-> ScalarOp(op, s, u[j])]
vec_op_vv(op, u, w) == [j \in DOMAIN u |-> ScalarOp(op, u[j], w[j])]

\* scalar op matrix with the operands of each column exchanged
mat3_op_sm_swapped(op, s, mr) ==
    ivec3(vec_op_vs(op, mr[0], s), vec_op_vs(op, mr[1], s), vec_op_vs(op, mr[2], s))

\* operator op(const T& lhs, const mat<U, 3, R>& rhs)
mat3_op_sm(op, s, mr) ==
    ivec3(vec_op_sv(op, s, mr[0]), vec_op_sv(op, s, mr[1]), vec_op_sv(op, s, mr[2]))

\* operator op(const mat<T, 3, R>& lhs, const U& rhs)
mat3_op_ms(op, ml, s) ==
    ivec3(vec_op_vs(op, ml[0], s), vec_op_vs(op, ml[1], s), vec_op_vs(op, ml[2], s))

\* matrix op matrix with columns 1 and 2 of the right operand exchanged
mat3_op_mm_mispaired(op, ml, mr) ==
    ivec3(vec_op_vv(op, ml[0], mr[0]), vec_op_vv(op, ml[1], mr[2]),
          vec_op_vv(op, ml[2], mr[1]))

\* operator op(const mat<T, 3, R>& lhs, const mat<U, 3, R>& rhs), op not *
mat3_op_mm(op, ml, mr) ==
    ivec3(vec_op_vv(op, ml[0], mr[0]), vec_op_vv(op, ml[1], mr[1]),
          vec_op_vv(op, ml[2], mr[2]))

\* operator op(const T& lhs, const mat<U, 4, R>& rhs)
mat4_op_sm(op, s, mr) ==
    ivec4(vec_op_sv(op, s, mr[0]), vec_op_sv(op, s, mr[1]),
          vec_op_sv(op, s, mr[2]), vec_op_sv(op, s, mr[3]))

\* operator op(const mat<T, 4, R>& lhs, const U& rhs)
mat4_op_ms(op, ml, s) ==
    ivec4(vec_op_vs(op, ml[0], s), vec_op_vs(op, ml[1], s),
          vec_op_vs(op, ml[2], s), vec_op_vs(op, ml[3], s))

\* matrix op matrix with the last column of the result taken from column 2
mat4_op_mm_repeat(op, ml, mr) ==
    ivec4(vec_op_vv(op, ml[0], mr[0]), vec_op_vv(op, ml[1], mr[1]),
          vec_op_vv(op, ml[2], mr[2]), vec_op_vv(op, ml[2], mr[2]))

\* operator op(const mat<T, 4, R>& lhs, const mat<U, 4, R>& rhs), op not *
mat4_op_mm(op, ml, mr) ==
    ivec4(vec_op_vv(op, ml[0], mr[0]), vec_op_vv(op, ml[1], mr[1]),
          vec_op_vv(op, ml[2], mr[2]), vec_op_vv(op, ml[3], mr[3]))

\* the overloads by the class of the matrix operand
mat_op_sm(op, s, mr) ==
    IF Cols(mr) = 3 THEN mat3_op_sm(op, s, mr) ELSE mat4_op_sm(op, s, mr)
mat_op_ms(op, ml, s) ==
    IF Cols(ml) = 3 THEN mat3_op_ms(op, ml, s) ELSE mat4_op_ms(op, ml, s)
mat_op_mm(op, ml, mr) ==
    IF Cols(ml) = 3 THEN mat3_op_mm(op, ml, mr) ELSE mat4_op_mm(op, ml, mr)

\* the sum of f[k] over k in 0..(n - 1)
RECURSIVE SumTo(_, _)
SumTo(f, n) == IF n = 0 THEN 0 ELSE f[n - 1] + SumTo(f, n - 1)

\* operator*(const mat<T, C1, R1>& lhs, const mat<U, C2, C1>& rhs)
\* (matmult.hpp): the composition product, of C2 columns and R1 rows, its
\* component at column i, row j the dot product of row j of lhs with
\* column i of rhs
matmult(ml, mr) ==
    [i \in DOMAIN mr |->
        [j \in DOMAIN ml[0] |->
            SumTo([k \in DOMAIN ml |-> ml[k][j] * mr[i][k]], Cols(ml))]]

\* compmult(lhs, rhs) of two matrices of three columns
compmult3(ml, mr) ==
    ivec3(vec_op_vv("*", ml[0], mr[0]), vec_op_vv("*", ml[1], mr[1]),
          vec_op_vv("*", ml[2], mr[2]))

\* compmult(lhs, rhs) of two matrices of four columns
compmult4(ml, mr) ==
    ivec4(vec_op_vv("*", ml[0], mr[0]), vec_op_vv("*", ml[1], mr[1]),
          vec_op_vv("*", ml[2], mr[2]), vec_op_vv("*", ml[3], mr[3]))

compmult(ml, mr) == IF Cols(ml) = 3 THEN compmult3(ml, mr) ELSE compmult4(ml, mr)

\* m *= other for a matrix other, assigning other itself
times_assign_mat_copy(mm, other) == other

\* m *= other storing each column of the product into m as soon as it is
\* computed
RECURSIVE times_assign_cols(_, _, _)
times_assign_cols(mm, other, n) ==
    IF n = 0 THEN mm
    ELSE LET cur == times_assign_cols(mm, other, n - 1)
         IN  [cur EXCEPT ![n - 1] = matmult(cur, other)[n - 1]]
times_assign_mat_inplace(mm, other) == times_assign_cols(mm, other, Cols(mm))

\* mat& operator*=(const mat<U, OtherC, OtherR>& other):
\* return *this = *this * other
times_assign_mat(mm, other) == matmult(mm, other)

\* m op= other for a scalar other, leaving the last column as it was
mat3_assign_op_s_skip(op, mm, s) ==
    ivec3(vec_op_vs(op, mm[0], s), vec_op_vs(op, mm[1], s), mm[2])

\* mat<T, 3, R>::operator op=(const U& other): each column op= other
mat3_assign_op_s(op, mm, s) ==
    ivec3(vec_op_vs(op, mm[0], s), vec_op_vs(op, mm[1], s), vec_op_vs(op, mm[2], s))

\* mat<T, 4, R>::operator op=(const U& other)
mat4_assign_op_s(op, mm, s) ==
    ivec4(vec_op_vs(op, mm[0], s), vec_op_vs(op, mm[1], s),
          vec_op_vs(op, mm[2], s), vec_op_vs(op, mm[3], s))

assign_op_s(op, mm, s) ==
    IF Cols(mm) = 3 THEN mat3_assign_op_s(op, mm, s) ELSE mat4_assign_op_s(op, mm, s)

\* vec == vec (vec.hpp): every component equal
vec_eq(u, w) == \A j \in DOMAIN u : u[j] = w[j]

\* lhs == rhs comparing the first three columns only
mat4_eq_three(ml, mr) ==
    vec_eq(ml[0], mr[0]) /\ vec_eq(ml[1], mr[1]) /\ vec_eq(ml[2], mr[2])

\* operator==(const mat<T, 3, R>& lhs, const mat<U, 3, R>& rhs)
mat3_eq(ml, mr) ==
    vec_eq(ml[0], mr[0]) /\ vec_eq(ml[1], mr[1]) /\ vec_eq(ml[2], mr[2])

\* operator==(const mat<T, 4, R>& lhs, const mat<U, 4, R>& rhs)
mat4_eq(ml, mr) ==
    /\ vec_eq(ml[0], mr[0])
    /\ vec_eq(ml[1], mr[1])
    /\ vec_eq(ml[2], mr[2])
    /\ vec_eq(ml[3], mr[3])

mat_eq(ml, mr) == IF Cols(ml) = 3 THEN mat3_eq(ml, mr) ELSE mat4_eq(ml, mr)

\* operator!=(lhs, rhs): !(lhs == rhs)
mat_neq(ml, mr) == ~mat_eq(ml, mr)

\* math::min, math::max of two vectors and math::abs of one (vec.hpp,
\* math.hpp): componentwise
vec_min(u, w) == [j \in DOMAIN u |-> IF w[j] < u[j] THEN w[j] ELSE u[j]]
vec_max(u, w) == [j \in DOMAIN u |-> IF u[j] < w[j] THEN w[j] ELSE u[j]]
vec_abs(u) == [j \in DOMAIN u |-> IF u[j] < 0 THEN -u[j] ELSE u[j]]

\* math::min(m1, m2) of three columns with columns 1 and 2 of m2 exchanged
mat3_min_mispaired(m1, m2) ==
    ivec3(vec_min(m1[0], m2[0]), vec_min(m1[1], m2[2]), vec_min(m1[2], m2[1]))

\* math::min(m1, m2)
mat3_min(m1, m2) ==
    ivec3(vec_min(m1[0], m2[0]), vec_min(m1[1], m2[1]), vec_min(m1[2], m2[2]))
mat4_min(m1, m2) ==
    ivec4(vec_min(m1[0], m2[0]), vec_min(m1[1], m2[1]),
          vec_min(m1[2], m2[2]), vec_min(m1[3], m2[3]))

\* math::max(m1, m2)
mat3_max(m1, m2) ==
    ivec3(vec_max(m1[0], m2[0]), vec_max(m1[1], m2[1]), vec_max(m1[2], m2[2]))
mat4_max(m1, m2) ==
    ivec4(vec_max(m1[0], m2[0]), vec_max(m1[1], m2[1]),
          vec_max(m1[2], m2[2]), vec_max(m1[3], m2[3]))

\* math::abs(m)
mat3_abs(mm) == ivec3(vec_abs(mm[0]), vec_abs(mm[1]), vec_abs(mm[2]))
mat4_abs(mm) == ivec4(vec_abs(mm[0]), vec_abs(mm[1]), vec_abs(mm[2]), vec_abs(mm[3]))

mat_min(m1, m2) == IF Cols(m1) = 3 THEN mat3_min(m1, m2) ELSE mat4_min(m1, m2)
mat_max(m1, m2) == IF Cols(m1) = 3 THEN mat3_max(m1, m2) ELSE mat4_max(m1, m2)
mat_abs(mm) == IF Cols(mm) = 3 THEN mat3_abs(mm) ELSE mat4_abs(mm)

(***************************************************************************)
(* Conversion between component types.  Two floating-point types stand     *)
(* for a pair of which one promotes to the other: the narrow one holds     *)
(* the multiples of a unit, the wide one the multiples of unit / Ratio,    *)
(* and a component n stands for n times the unit of its type.  "widen"     *)
(* converts narrow to wide, "narrow" wide to narrow.                       *)
(***************************************************************************)
Ratio == 2

\* U(x) for a component x: exact when widening, rounded to the nearest
\* value (a tie to the even one) when narrowing
convert(dir, x) ==
    IF dir = "widen" THEN x * Ratio
    ELSE LET q == x \div Ratio
             r == x % Ratio
         IN  IF 2 * r < Ratio THEN q
             ELSE IF 2 * r > Ratio THEN q + 1
             ELSE IF q % 2 = 0 THEN q ELSE q + 1

\* vec<T, R>(const vec<U, R>&) and the implicit conversion of a vector
\* (vec.hpp): each component converted
vec_convert(dir, u) == [j \in DOMAIN u |-> convert(dir, u[j])]

\* the explicit conversion with the first column converted twice over
mat3_explicit_twice(dir, other) ==
    ivec3(vec_convert(dir, vec_convert(dir, other[0])),
          vec_convert(dir, other[1]), vec_convert(dir, other[2]))

\* explicit mat<T, 3, R>(const mat<U, 3, R>& other)
mat3_explicit(dir, other) ==
    ivec3(vec_convert(dir, other[0]), vec_convert(dir, other[1]),
          vec_convert(dir, other[2]))

\* explicit mat<T, 4, R>(const mat<U, 4, R>& other)
mat4_explicit(dir, other) ==
    ivec4(vec_convert(dir, other[0]), vec_convert(dir, other[1]),
          vec_convert(dir, other[2]), vec_convert(dir, other[3]))

\* mat<T, 3, R>::operator mat<U, 3, R>(): the columns, each converted
\* implicitly
mat3_implicit(dir, mm) ==
    ivec3(vec_convert(dir, mm[0]), vec_convert(dir, mm[1]), vec_convert(dir, mm[2]))

\* mat<T, 4, R>::operator mat<U, 4, R>()
mat4_implicit(dir, mm) ==
    ivec4(vec_convert(dir, mm[0]), vec_convert(dir, mm[1]),
          vec_convert(dir, mm[2]), vec_convert(dir, mm[3]))

mat_explicit(dir, other) ==
    IF Cols(other) = 3 THEN mat3_explicit(dir, other) ELSE mat4_explicit(dir, other)
mat_implicit(dir, mm) ==
    IF Cols(mm) = 3 THEN mat3_implicit(dir, mm) ELSE mat4_implicit(dir, mm)

(***************************************************************************)
(* SpecA: one operator call on a matrix.  The left operand is drawn at     *)
(* the start; the call draws its other operand, a scalar or a matrix of    *)
(* the shape the overload demands, and leaves its result in ares.          *)
(***************************************************************************)

\* component (i, j) of the operand of seed k: the odd seeds alternate in sign
SeedEntry(k, i, j) ==
    IF k % 2 = 1 /\ (i + j) % 2 = 1 THEN -Entry(k, i, j) ELSE Entry(k, i, j)

SeedMat(C, R, k) == [i \in 0..(C - 1) |-> [j \in 0..(R - 1) |-> SeedEntry(k, i, j)]]

\* the same components laid out from the last column and row backwards
MirrorMat(C, R, k) ==
    [i \in 0..(C - 1) |-> [j \in 0..(R - 1) |-> SeedEntry(k, C - 1 - i, R - 1 - j)]]

ArithMats == {SeedMat(C, R, k) : C \in ColCounts, R \in RowCounts, k \in 0..MaxSeed}

\* mm with its component at column i, row j raised by one
OneOff(mm, i, j) == [mm EXCEPT ![i][j] = @ + 1]

\* the matrices of C columns and R rows a call may be given as its other
\* operand beside mm
Operands(C, R, mm) ==
    {SeedMat(C, R, k) : k \in 0..MaxSeed}
        \cup {MirrorMat(C, R, k) : k \in 0..MaxSeed}
        \cup {identity(C, R)}
        \cup (IF Cols(mm) = C /\ Rows(mm) = R
              THEN {OneOff(mm, i, j) : i \in 0..(C - 1), j \in 0..(R - 1)}
              ELSE {})

Scalars == (0 - 1)..MaxScalar

NoCall == [f |-> "none", op |-> "none"]

\* the matrix history and the transform call while they are not in use
IdleM ==
    /\ m = NoMat
    /\ src = NoMat
    /\ src2 = NoMat
    /\ mop = "none"
    /\ mop2 = "none"
    /\ sarg = 0
    /\ steps = 0

IdleT ==
    /\ arg = [i \in 0..3 |-> Fin(0)]
    /\ angle = Fin(0)
    /\ v = vec3(Fin(0), Fin(0), Fin(0))
    /\ top = "none"
    /\ tres = NoVec

InitA ==
    /\ lhs \in ArithMats
    /\ rhs = NoMat
    /\ scal = 0
    /\ aop = NoCall
    /\ ares = NoMat
    /\ IdleS
    /\ IdleM
    /\ IdleT
    /\ IdleC

\* every component pair of the call has defined behaviour
DefinedMS(op, mm, s) == \A i \in ColIdx(mm), j \in RowIdx(mm) : Defined(op, mm[i][j], s)
DefinedSM(op, s, mm) == \A i \in ColIdx(mm), j \in RowIdx(mm) : Defined(op, s, mm[i][j])
DefinedMM(op, ml, mr) ==
    \A i \in ColIdx(ml), j \in RowIdx(ml) : Defined(op, ml[i][j], mr[i][j])

\* a call of form f and operator op with the scalar operand s
CallS(f, op, s, result) ==
    /\ aop' = [f |-> f, op |-> op]
    /\ scal' = s
    /\ ares' = result
    /\ UNCHANGED <<lhs, rhs>>
    /\ UNCHANGED <<tvars, mvars, svars, cvars>>

\* a call of form f and operator op with the matrix operand other
CallM(f, op, other, result) ==
    /\ aop' = [f |-> f, op |-> op]
    /\ rhs' = other
    /\ ares' = result
    /\ UNCHANGED <<lhs, scal>>
    /\ UNCHANGED <<tvars, mvars, svars, cvars>>

\* lhs op s
BinaryMS ==
    /\ aop = NoCall
    /\ \E op \in BinOps, s \in Scalars :
           /\ DefinedMS(op, lhs, s)
           /\ CallS("ms", op, s, mat_op_ms(op, lhs, s))

\* s op lhs: the matrix at hand is the right operand
BinarySM ==
    /\ aop = NoCall
    /\ \E op \in BinOps, s \in Scalars :
           /\ DefinedSM(op, s, lhs)
           /\ CallS("sm", op, s, mat_op_sm(op, s, lhs))

\* lhs op other for a matrix of the same shape; * is not among these
BinaryMM ==
    /\ aop = NoCall
    /\ \E op \in BinOps \ {"*"}, other \in Operands(Cols(lhs), Rows(lhs), lhs) :
           /\ DefinedMM(op, lhs, other)
           /\ CallM("mm", op, other, mat_op_mm(op, lhs, other))

\* lhs * other for a matrix of as many rows as lhs has columns
MatMult ==
    /\ aop = NoCall
    /\ \E C \in ColCounts :
           \E other \in Operands(C, Cols(lhs), lhs) :
               CallM("matmult", "*", other, matmult(lhs, other))

\* identity() * lhs
IdentityTimes ==
    /\ aop = NoCall
    /\ Rows(lhs) \in ColCounts
    /\ CallM("id_times", "*", identity(Rows(lhs), Rows(lhs)),
             matmult(identity(Rows(lhs), Rows(lhs)), lhs))

\* lhs *= other for a square matrix other; ares is lhs afterwards
TimesAssignMat ==
    /\ aop = NoCall
    /\ \E other \in Operands(Cols(lhs), Cols(lhs), lhs) :
           CallM("times_assign", "*", other, times_assign_mat(lhs, other))

\* lhs *= s; ares is lhs afterwards
TimesAssignScalar ==
    /\ aop = NoCall
    /\ \E s \in Scalars : CallS("times_assign_s", "*", s, assign_op_s("*", lhs, s))

\* compmult(lhs, other)
Compmult ==
    /\ aop = NoCall
    /\ \E other \in Operands(Cols(lhs), Rows(lhs), lhs) :
           CallM("compmult", "*", other, compmult(lhs, other))

\* lhs == other and lhs != other
Equal ==
    /\ aop = NoCall
    /\ \E other \in Operands(Cols(lhs), Rows(lhs), lhs) :
           CallM("eq", "==", other, mat_eq(lhs, other))
NotEqual ==
    /\ aop = NoCall
    /\ \E other \in Operands(Cols(lhs), Rows(lhs), lhs) :
           CallM("neq", "!=", other, mat_neq(lhs, other))

\* math::min(lhs, other), math::max(lhs, other), math::abs(lhs)
Min ==
    /\ aop = NoCall
    /\ \E other \in Operands(Cols(lhs), Rows(lhs), lhs) :
           CallM("min", "min", other, mat_min(lhs, other))
Max ==
    /\ aop = NoCall
    /\ \E other \in Operands(Cols(lhs), Rows(lhs), lhs) :
           CallM("max", "max", other, mat_max(lhs, other))
Abs ==
    /\ aop = NoCall
    /\ CallS("abs", "abs", 0, mat_abs(lhs))

\* mat<T, C, R>(lhs) for lhs of the other component type
ExplicitConvert ==
    /\ aop = NoCall
    /\ \E dir \in {"widen", "narrow"} :
           CallS("explicit", dir, 0, mat_explicit(dir, lhs))

\* lhs converted implicitly: only the promotion converts implicitly
ImplicitConvert ==
    /\ aop = NoCall
    /\ CallS("implicit", "widen", 0, mat_implicit("widen", lhs))

\* lhs converted implicitly to the wide type and explicitly back
RoundTrip ==
    /\ aop = NoCall
    /\ CallS("roundtrip", "widen", 0, mat_explicit("narrow", mat_implicit("widen", lhs)))

NextA ==
    \/ BinaryMS
    \/ BinarySM
    \/ BinaryMM
    \/ MatMult
    \/ IdentityTimes
    \/ TimesAssignMat
    \/ TimesAssignScalar
    \/ Compmult
    \/ Equal
    \/ NotEqual
    \/ Min
    \/ Max
    \/ Abs
    \/ ExplicitConvert
    \/ ImplicitConvert
    \/ RoundTrip

SpecA == InitA /\ [][NextA]_vars

(***************************************************************************)
(* SpecS: a matrix written in place through set_column, set_row and m[i],  *)
(* and read through column(i), row(j) and m[i].  calls records every call. *)
(***************************************************************************)

\* mat::set_column(i, column): impl_.columns[i] = column
set_column(mm, i, col) == [mm EXCEPT ![i] = col]

\* set_row storing the second component of row in the last column too
set_row3_slip(mm, j, rw) ==
    [mm EXCEPT ![0][j] = rw[0], ![1][j] = rw[1], ![2][j] = rw[1]]

\* mat<T, 3, R>::set_row(j, row)
set_row3(mm, j, rw) ==
    [mm EXCEPT ![0][j] = rw[0], ![1][j] = rw[1], ![2][j] = rw[2]]

\* mat<T, 4, R>::set_row(j, row)
set_row4(mm, j, rw) ==
    [mm EXCEPT ![0][j] = rw[0], ![1][j] = rw[1], ![2][j] = rw[2], ![3][j] = rw[3]]

set_row(mm, j, rw) == IF Cols(mm) = 3 THEN set_row3(mm, j, rw) ELSE set_row4(mm, j, rw)

NoHandle == [kind |-> "none", via |-> "none", idx |-> 0, val |-> <<>>]

\* vec<T, R>& operator[](i): a reference to column i of the matrix
index_handle(mm, i) == [kind |-> "ref", via |-> "index", idx |-> i, val |-> <<>>]

\* column(i) handing out the column itself
column_handle_ref(mm, i) == [kind |-> "ref", via |-> "column", idx |-> i, val |-> <<>>]

\* vec<T, R> column(i) const: the column by value
column_handle(mm, i) ==
    [kind |-> "copy", via |-> "column", idx |-> i, val |-> column(mm, i)]

\* vec<T, C> row(j) const: a vector built from the components of row j
row_handle(mm, j) == [kind |-> "copy", via |-> "row", idx |-> j, val |-> row(mm, j)]

\* the vector the caller holds
Held(h, mm) == IF h.kind = "ref" THEN mm[h.idx] ELSE h.val

\* h[k] = x for the held vector h: the matrix afterwards
write_self(h, mm, k, x) == IF h.kind = "ref" THEN [mm EXCEPT ![h.idx][k] = x] ELSE mm

\* h[k] = x for the held vector h: what the caller holds afterwards
write_held(h, k, x) == IF h.kind = "ref" THEN h ELSE [h EXCEPT !.val[k] = x]

\* the value the n-th call writes at index k: unlike every component of the
\* matrix at the start and unlike what any other call writes
WriteVal(n, k) == 20 * (n + 1) + k
WriteVec(n, len) == [k \in 0..(len - 1) |-> WriteVal(n, k)]

SelfMats == {SeedMat(C, R, k) : C \in ColCounts, R \in RowCounts, k \in {0, 1}}

InitS ==
    /\ self \in SelfMats
    /\ self0 = self
    /\ calls = <<>>
    /\ href = NoHandle
    /\ nops = 0
    /\ bal = 0
    /\ ret = [val |-> <<>>, pre |-> <<>>]
    /\ IdleA
    /\ IdleM
    /\ IdleT
    /\ IdleC

\* one more call on self: its record, the matrix and the handle after it
Did(e, after, h) ==
    /\ nops < MaxSteps
    /\ nops' = nops + 1
    /\ calls' = Append(calls, e)
    /\ self' = after
    /\ href' = h
    /\ ret' = [val |-> <<>>, pre |-> self]
    /\ UNCHANGED <<self0, bal>>
    /\ UNCHANGED <<tvars, mvars, avars, cvars>>

CallRec(op, via, idx, k, x) == [op |-> op, via |-> via, idx |-> idx, k |-> k, x |-> x]

SetColumn ==
    \E i \in ColIdx(self) :
        LET col == WriteVec(nops, Rows(self))
        IN  Did(CallRec("set_column", "none", i, 0, col), set_column(self, i, col), href)

SetRow ==
    \E j \in RowIdx(self) :
        LET rw == WriteVec(nops, Cols(self))
        IN  Did(CallRec("set_row", "none", j, 0, rw), set_row(self, j, rw), href)

\* auto c = m.column(i)
GetColumn ==
    /\ href = NoHandle
    /\ \E i \in ColIdx(self) :
           Did(CallRec("column", "none", i, 0, <<>>), self, column_handle(self, i))

\* auto r = m.row(j)
GetRow ==
    /\ href = NoHandle
    /\ \E j \in RowIdx(self) :
           Did(CallRec("row", "none", j, 0, <<>>), self, row_handle(self, j))

\* auto& c = m[i]
GetIndex ==
    /\ href = NoHandle
    /\ \E i \in ColIdx(self) :
           Did(CallRec("index", "none", i, 0, <<>>), self, index_handle(self, i))

\* c[k] = x for the vector held: m[i][k] = x when it is m[i]
WriteHeld ==
    /\ href # NoHandle
    /\ \E k \in DOMAIN Held(href, self) :
           Did(CallRec("write", href.via, href.idx, k, WriteVal(nops, k)),
               write_self(href, self, k, WriteVal(nops, k)),
               write_held(href, k, WriteVal(nops, k)))

NextS ==
    \/ SetColumn
    \/ SetRow
    \/ GetColumn
    \/ GetRow
    \/ GetIndex
    \/ WriteHeld

SpecS == InitS /\ [][NextS]_vars

(***************************************************************************)
(* SpecI: a matrix of integers incremented and decremented in place.       *)
(***************************************************************************)

\* ++v and --v of a vector (vec.hpp): every component one more, one less
vec_inc(u) == [j \in DOMAIN u |-> u[j] + 1]
vec_dec(u) == [j \in DOMAIN u |-> u[j] - 1]

\* mat& operator++(): the matrix afterwards, which is also what it returns
mat3_preinc(mm) == ivec3(vec_inc(mm[0]), vec_inc(mm[1]), vec_inc(mm[2]))
mat4_preinc(mm) == ivec4(vec_inc(mm[0]), vec_inc(mm[1]), vec_inc(mm[2]), vec_inc(mm[3]))
mat_preinc(mm) == IF Cols(mm) = 3 THEN mat3_preinc(mm) ELSE mat4_preinc(mm)

\* mat& operator--()
mat3_predec(mm) == ivec3(vec_dec(mm[0]), vec_dec(mm[1]), vec_dec(mm[2]))
mat4_predec(mm) == ivec4(vec_dec(mm[0]), vec_dec(mm[1]), vec_dec(mm[2]), vec_dec(mm[3]))
mat_predec(mm) == IF Cols(mm) = 3 THEN mat3_predec(mm) ELSE mat4_predec(mm)

\* m++ returning the matrix as it is after the increment
mat_postinc_updated(mm) == [after |-> mat_preinc(mm), val |-> mat_preinc(mm)]

\* mat operator++(int): tmp = *this; ++*this; return tmp
mat_postinc(mm) == [after |-> mat_preinc(mm), val |-> mm]

\* mat operator--(int): tmp = *this; --*this; return tmp
mat_postdec(mm) == [after |-> mat_predec(mm), val |-> mm]

InitI ==
    /\ self \in ArithMats
    /\ self0 = self
    /\ calls = <<>>
    /\ href = NoHandle
    /\ nops = 0
    /\ bal = 0
    /\ ret = [val |-> <<>>, pre |-> <<>>]
    /\ IdleA
    /\ IdleM
    /\ IdleT
    /\ IdleC

\* one more increment (d = 1) or decrement (d = -1) of self
Stepped(op, after, val, d) ==
    /\ nops < MaxSteps
    /\ nops' = nops + 1
    /\ calls' = Append(calls, CallRec(op, "none", 0, 0, <<>>))
    /\ self' = after
    /\ ret' = [val |-> val, pre |-> self]
    /\ bal' = bal + d
    /\ UNCHANGED <<self0, href>>
    /\ UNCHANGED <<tvars, mvars, avars, cvars>>

\* ++m
PreInc == Stepped("preinc", mat_preinc(self), mat_preinc(self), 1)

\* --m
PreDec == Stepped("predec", mat_predec(self), mat_predec(self), 0 - 1)

\* m++
PostInc == Stepped("postinc", mat_postinc(self).after, mat_postinc(self).val, 1)

\* m--
PostDec == Stepped("postdec", mat_postdec(self).after, mat_postdec(self).val, 0 - 1)

NextI ==
    \/ PreInc
    \/ PreDec
    \/ PostInc
    \/ PostDec

SpecI == InitI /\ [][NextI]_vars

(***************************************************************************)
(* SpecC: callers running at once.  store holds the matrices in memory:    *)
(* store[t] is owned by caller t, store[0] is shared and only read.  A     *)
(* caller runs one operation on its own matrix, one statement of the       *)
(* operator's body per step; the operand of a compound assignment is the   *)
(* shared matrix or the receiver itself.                                   *)
(***************************************************************************)

\* operator op=(const mat& other) with the statement applied to the operand
assign_m_step_operand(st, rcv, opd, op, c) ==
    [st EXCEPT ![opd][c] = vec_op_vv(op, st[rcv][c], st[opd][c])]

\* impl_.columns[c] op= other[c], a statement of operator op=(const mat&)
assign_m_step(st, rcv, opd, op, c) ==
    [st EXCEPT ![rcv][c] = vec_op_vv(op, st[rcv][c], st[opd][c])]

\* operator op=(const U& other) storing the new column one place further on
assign_s_step_next(st, rcv, s, op, c) ==
    [st EXCEPT ![rcv][(c + 1) % Cols(st[rcv])] = vec_op_vs(op, st[rcv][c], s)]

\* impl_.columns[c] op= other, a statement of operator op=(const U&)
assign_s_step(st, rcv, s, op, c) ==
    [st EXCEPT ![rcv][c] = vec_op_vs(op, st[rcv][c], s)]

\* *this = *this * other
times_m_step(st, rcv, opd) == [st EXCEPT ![rcv] = times_assign_mat(st[rcv], st[opd])]

\* ++impl_.columns[c] and --impl_.columns[c]
incdec_step(st, rcv, op, c) ==
    [st EXCEPT ![rcv][c] = IF op = "++" THEN vec_inc(st[rcv][c]) ELSE vec_dec(st[rcv][c])]

\* impl_.columns[c][j] = row[c], a statement of set_row
set_row_step(st, rcv, j, rw, c) == [st EXCEPT ![rcv][c][j] = rw[c]]

\* column c of lhs op rhs, an initializer of the matrix a binary operator
\* returns
read_step(st, a, b, op, c) == vec_op_vv(op, st[a][c], st[b][c])

Job(kind, op, opd, s, i, j) ==
    [kind |-> kind, op |-> op, opd |-> opd, s |-> s, i |-> i, j |-> j]

\* the vector a caller hands to set_column and set_row
ArgVec(t, len) == WriteVec(t, len)

\* the operations a caller t alone is given, on a matrix of C columns and R rows
SoloJobs(C, R, t) ==
    {Job("assign_m", op, opd, 0, 0, 0) : op \in BinOps \ {"*"}, opd \in {0, t}}
        \cup {Job("assign_s", op, 0, s, 0, 0) : op \in BinOps, s \in Scalars}
        \cup (IF C = R THEN {Job("times_m", "*", opd, 0, 0, 0) : opd \in {0, t}} ELSE {})
        \cup {Job("incdec", op, 0, 0, 0, 0) : op \in {"++", "--"}}
        \cup {Job("set_column", "=", 0, 0, C - 1, 0)}
        \cup {Job("set_row", "=", 0, 0, 0, R - 1)}
        \cup {Job("write", "=", 0, 0, C - 1, 0)}
        \cup {Job("read", op, 0, 0, 0, 0) : op \in {"+", "-"}}

\* the operations each of two callers is given
DuoJobs(C, R, t) ==
    {Job("assign_m", "+", opd, 0, 0, 0) : opd \in {0, t}}
        \cup {Job("assign_s", "*", 0, 2, 0, 0)}
        \cup {Job("incdec", "++", 0, 0, 0, 0)}
        \cup {Job("set_column", "=", 0, 0, C - 1, 0)}
        \cup {Job("set_row", "=", 0, 0, 0, R - 1)}
        \cup {Job("write", "=", 0, 0, C - 1, 0)}
        \cup {Job("read", "-", 0, 0, 0, 0)}

\* the operation has defined behaviour on the matrices st
Legal(jb, st, t) ==
    CASE jb.kind = "assign_m" -> DefinedMM(jb.op, st[t], st[jb.opd])
      [] jb.kind = "assign_s" -> DefinedMS(jb.op, st[t], jb.s)
      [] OTHER -> TRUE

\* the statements the body of the operation has
NSteps(jb, mm) ==
    IF jb.kind \in {"times_m", "set_column", "write"} THEN 1 ELSE Cols(mm)

NoOut == [kind |-> "none", to |-> 0, val |-> <<>>]

\* the matrices: the shared one, all positive, and one per caller
Memory(C, R, k, n) ==
    [o \in 0..n |-> IF o = 0 THEN MirrorMat(C, R, 2) ELSE SeedMat(C, R, k + o - 1)]

InitC ==
    /\ \E C \in ColCounts, R \in RowCounts, k \in 0..MaxSeed :
           \/ /\ store = Memory(C, R, k, 1)
              /\ \E j1 \in SoloJobs(C, R, 1) : job = (1 :> j1)
           \/ /\ store = Memory(C, R, k, 2)
              /\ \E j1 \in DuoJobs(C, R, 1), j2 \in DuoJobs(C, R, 2) :
                     job = (1 :> j1) @@ (2 :> j2)
    /\ \A t \in DOMAIN job : Legal(job[t], store, t)
    /\ store0 = store
    /\ pc = [t \in DOMAIN job |-> 0]
    /\ out = [t \in DOMAIN job |-> NoOut]
    /\ IdleA
    /\ IdleS
    /\ IdleM
    /\ IdleT

\* caller t makes the next step of its operation: the memory after it and
\* what its expression yields once the last step is made
StepOf(t, after, yields) ==
    /\ pc' = [pc EXCEPT ![t] = @ + 1]
    /\ store' = after
    /\ out' = [out EXCEPT ![t] = IF pc[t] + 1 = NSteps(job[t], store[t])
                                 THEN yields ELSE @]
    /\ UNCHANGED <<store0, job>>
    /\ UNCHANGED <<tvars, mvars, avars, svars>>

\* what a call that returns *this yields
ThisRef(t) == [kind |-> "ref", to |-> t, val |-> <<>>]
Void == [kind |-> "void", to |-> 0, val |-> <<>>]

\* t is in the middle of an operation of the kind
Running(t, kind) == job[t].kind = kind /\ pc[t] < NSteps(job[t], store[t])

\* m op= other for a matrix other
AssignMStep ==
    \E t \in DOMAIN job :
        /\ Running(t, "assign_m")
        /\ StepOf(t, assign_m_step(store, t, job[t].opd, job[t].op, pc[t]), ThisRef(t))

\* m op= s for a scalar s
AssignSStep ==
    \E t \in DOMAIN job :
        /\ Running(t, "assign_s")
        /\ StepOf(t, assign_s_step(store, t, job[t].s, job[t].op, pc[t]), ThisRef(t))

\* m *= other for a matrix other
TimesAssignStep ==
    \E t \in DOMAIN job :
        /\ Running(t, "times_m")
        /\ StepOf(t, times_m_step(store, t, job[t].opd), ThisRef(t))

\* ++m and --m
IncDecStep ==
    \E t \in DOMAIN job :
        /\ Running(t, "incdec")
        /\ StepOf(t, incdec_step(store, t, job[t].op, pc[t]), ThisRef(t))

\* m.set_column(i, v)
SetColumnStep ==
    \E t \in DOMAIN job :
        /\ Running(t, "set_column")
        /\ StepOf(t, [store EXCEPT ![t] = set_column(@, job[t].i, ArgVec(t, Rows(@)))], Void)

\* m.set_row(j, v)
SetRowStep ==
    \E t \in DOMAIN job :
        /\ Running(t, "set_row")
        /\ StepOf(t, set_row_step(store, t, job[t].j, ArgVec(t, Cols(store[t])), pc[t]), Void)

\* m[i][j] = x
WriteStep ==
    \E t \in DOMAIN job :
        /\ Running(t, "write")
        /\ StepOf(t, [store EXCEPT ![t] = write_self(index_handle(@, job[t].i), @,
                                                      job[t].j, ArgVec(t, 1)[0])], Void)

\* m op shared, which mutates nothing: the columns of the result so far
ReadStep ==
    \E t \in DOMAIN job :
        /\ Running(t, "read")
        /\ pc' = [pc EXCEPT ![t] = @ + 1]
        /\ out' = [out EXCEPT ![t] =
                      [kind |-> "val", to |-> 0,
                       val |-> [c \in 0..pc[t] |->
                                   IF c = pc[t]
                                   THEN read_step(store, t, 0, job[t].op, c)
                                   ELSE out[t].val[c]]]]
        /\ UNCHANGED <<store, store0, job>>
        /\ UNCHANGED <<tvars, mvars, avars, svars>>

NextC ==
    \/ AssignMStep
    \/ AssignSStep
    \/ TimesAssignStep
    \/ IncDecStep
    \/ SetColumnStep
    \/ SetRowStep
    \/ WriteStep
    \/ ReadStep

SpecC == InitC /\ [][NextC]_vars

(***************************************************************************)
(* SpecL: axis_angle instantiated with a component type of several lanes.  *)
(* A value of the type holds one floating value per lane; the operations   *)
(* of math.hpp on it (length, not_equal, select, the division) work lane   *)
(* by lane, not_equal giving a mask of one truth value per lane.           *)
(***************************************************************************)
NLanes == 2
Lanes == 0..(NLanes - 1)

\* U(x): x in every lane
simd_splat(x) == [l \in Lanes |-> x]

\* the rotation vector lane l of u holds
LaneOf(u, l) == [i \in DOMAIN u |-> u[i][l]]

\* math::length(v)
simd_length(u) == [l \in Lanes |-> length(LaneOf(u, l))]

\* math::not_equal(a, b): the mask
simd_not_equal(a, b) == [l \in Lanes |-> not_equal(a[l], b[l])]

\* vec / scalar
simd_vec_over(u, a) == [i \in DOMAIN u |-> [l \in Lanes |-> fdiv(u[i][l], a[l])]]

\* math::select(mask, value, otherwise) of two vectors
simd_select(mask, value, otherwise) ==
    [i \in DOMAIN value |-> [l \in Lanes |-> select(mask[l], value[i][l], otherwise[i][l])]]

\* axis_angle taking one branch for all lanes: the quotient if no lane has
\* length zero, the z axis otherwise
axis_angle_lanes_branch(u) ==
    LET ang == simd_length(u)
        axis == IF \A l \in Lanes : not_equal(ang[l], Fin(0))
                THEN simd_vec_over(u, ang)
                ELSE [i \in DOMAIN z_axis |-> simd_splat(z_axis[i])]
    IN  vec4(axis[0], axis[1], axis[2], ang)

\* axis_angle(const vec3<T>& v), T of several lanes
axis_angle_lanes(u) ==
    LET ang == simd_length(u)
        axis == simd_select(simd_not_equal(ang, simd_splat(Fin(0))),
                            simd_vec_over(u, ang),
                            [i \in DOMAIN z_axis |-> simd_splat(z_axis[i])])
    IN  vec4(axis[0], axis[1], axis[2], ang)

\* the rotation vectors a lane is given: of length zero (the zero vector and
\* one whose squares round to zero) and of other lengths
LaneVecs == {vec3(Fin(a), Fin(0), Fin(b)) : a \in {0, 1, MaxV}, b \in {0, 0 - MaxV}}

\* the vec3<T> whose lane l holds f[l]
FromLanes(f) == [i \in 0..2 |-> [l \in Lanes |-> f[l][i]]]

\* two arguments, for two calls
InitL ==
    /\ arg \in [1..2 -> {FromLanes(f) : f \in [Lanes -> LaneVecs]}]
    /\ angle = Fin(0)
    /\ v = vec3(Fin(0), Fin(0), Fin(0))
    /\ top = "none"
    /\ tres = NoVec
    /\ IdleM
    /\ IdleA
    /\ IdleS
    /\ IdleC

\* axis_angle(arg[1]) and axis_angle(arg[2])
AxisAngleLanes ==
    /\ top = "none"
    /\ Call("axis_angle_lanes", <<axis_angle_lanes(arg[1]), axis_angle_lanes(arg[2])>>)

NextL == AxisAngleLanes

SpecL == InitL /\ [][NextL]_vars

(***************************************************************************)
(* Claims about operator calls (SpecA).                                    *)
(***************************************************************************)

\* the square matrix of n columns with 1 on the diagonal and 0 elsewhere
DiagOnes(n) == [i \in 0..(n - 1) |-> Basis(n, i)]

\* C11: identity() * m == m and m * identity() == m under the composition
\* product, identity() being the square matrix of ones on the diagonal
\* whose size the product demands; m *= identity() leaves m as it was.
C11_IdentityNeutral ==
    /\ aop.f = "id_times" => (rhs = DiagOnes(Rows(lhs)) /\ ares = lhs)
    /\ (aop.f = "matmult" /\ rhs = DiagOnes(Cols(lhs))) => ares = lhs
    /\ (aop.f = "times_assign" /\ rhs = DiagOnes(Cols(lhs))) => ares = lhs

\* m *= identity() was called on a matrix that is not square
C11_Witness ==
    /\ aop.f = "times_assign"
    /\ rhs = DiagOnes(4)
    /\ Rows(lhs) = 3
    /\ ares = lhs

\* C12: m + 0 == m and m * 1 == m for the scalars 0 and 1, and m - m is
\* zero(), the matrix of m's shape with every component 0.
C12_NeutralScalars ==
    /\ (aop = [f |-> "ms", op |-> "+"] /\ scal = 0) => ares = lhs
    /\ (aop = [f |-> "ms", op |-> "*"] /\ scal = 1) => ares = lhs
    /\ (aop = [f |-> "mm", op |-> "-"] /\ rhs = lhs) =>
           /\ ares = zero(Cols(lhs), Rows(lhs))
           /\ \A i \in ColIdx(lhs), j \in RowIdx(lhs) : ares[i][j] = 0

\* m - m was taken of a matrix of three columns none of which is zero
C12_Witness ==
    /\ aop = [f |-> "mm", op |-> "-"]
    /\ rhs = lhs
    /\ Cols(lhs) = 3
    /\ \A i \in ColIdx(lhs) : \E j \in RowIdx(lhs) : lhs[i][j] # 0
    /\ \A i \in ColIdx(lhs), j \in RowIdx(lhs) : ares[i][j] = 0

\* C13: for op among + - / % & | ^ << >> (and * with a scalar) the result
\* has the shape of the matrix operand and (m op s)[i][j] == m[i][j] op s,
\* (s op m)[i][j] == s op m[i][j] with the scalar as the left operand, and
\* (a op b)[i][j] == a[i][j] op b[i][j].
C13_Componentwise ==
    /\ aop.f \in {"ms", "sm", "mm"} =>
           /\ DOMAIN ares = DOMAIN lhs
           /\ \A i \in ColIdx(lhs) : DOMAIN ares[i] = DOMAIN lhs[i]
    /\ aop.f = "ms" =>
           \A i \in ColIdx(lhs), j \in RowIdx(lhs) :
               ares[i][j] = ScalarOp(aop.op, lhs[i][j], scal)
    /\ aop.f = "sm" =>
           \A i \in ColIdx(lhs), j \in RowIdx(lhs) :
               ares[i][j] = ScalarOp(aop.op, scal, lhs[i][j])
    /\ aop.f = "mm" =>
           \A i \in ColIdx(lhs), j \in RowIdx(lhs) :
               ares[i][j] = ScalarOp(aop.op, lhs[i][j], rhs[i][j])

\* s - m was taken where m - s would have given another component
C13_Witness ==
    /\ aop = [f |-> "sm", op |-> "-"]
    /\ Cols(lhs) = 3
    /\ ares[2][1] = scal - lhs[2][1]
    /\ ares[2][1] # lhs[2][1] - scal

\* the dot product of row j of ml with column i of mr
RowDotColumn(ml, mr, i, j) == SumTo([k \in ColIdx(ml) |-> ml[k][j] * mr[i][k]], Cols(ml))

\* C14: multiplying a matrix by a matrix is never elementwise: m *= other
\* leaves in m the composition product m * other, of m's shape; the
\* elementwise product is what compmult(a, b) returns; m *= s for a scalar
\* multiplies every component by s.
C14_TimesIsComposition ==
    /\ aop.f \in {"times_assign", "compmult", "times_assign_s"} =>
           /\ DOMAIN ares = DOMAIN lhs
           /\ \A i \in ColIdx(lhs) : DOMAIN ares[i] = DOMAIN lhs[i]
    /\ aop.f = "times_assign" =>
           \A i \in ColIdx(lhs), j \in RowIdx(lhs) :
               ares[i][j] = RowDotColumn(lhs, rhs, i, j)
    /\ aop.f = "compmult" =>
           \A i \in ColIdx(lhs), j \in RowIdx(lhs) :
               ares[i][j] = lhs[i][j] * rhs[i][j]
    /\ aop.f = "times_assign_s" =>
           \A i \in ColIdx(lhs), j \in RowIdx(lhs) :
               ares[i][j] = lhs[i][j] * scal

\* m *= other was called where the composition product differs from the
\* elementwise one in every column
C14_Witness ==
    /\ aop.f = "times_assign"
    /\ Cols(lhs) = 3
    /\ Rows(lhs) = 3
    /\ \A i \in ColIdx(lhs) : ares[i] # compmult3(lhs, rhs)[i]
    /\ ares[1][2] = lhs[0][2] * rhs[1][0] + lhs[1][2] * rhs[1][1] + lhs[2][2] * rhs[1][2]

\* C15: a == b is true exactly when every component of a equals the
\* component of b at the same column and row, and a != b is its negation.
C15_Equality ==
    /\ aop.f = "eq" =>
           (ares <=> \A i \in ColIdx(lhs), j \in RowIdx(lhs) : lhs[i][j] = rhs[i][j])
    /\ aop.f = "neq" =>
           (ares <=> \E i \in ColIdx(lhs), j \in RowIdx(lhs) : lhs[i][j] # rhs[i][j])

\* == returned false for two matrices that differ in one component only,
\* the last of the last column
C15_Witness ==
    /\ aop.f = "eq"
    /\ Cols(lhs) = 4
    /\ rhs = OneOff(lhs, 3, Rows(lhs) - 1)
    /\ ares = FALSE

\* C19: min, max and abs of matrices are componentwise and keep the shape:
\* min(a, b)[i][j] is the smaller and max(a, b)[i][j] the larger of a[i][j]
\* and b[i][j], abs(a)[i][j] is the magnitude of a[i][j]; no column is
\* skipped or paired with another.
C19_MinMaxAbs ==
    /\ aop.f \in {"min", "max", "abs"} =>
           /\ DOMAIN ares = DOMAIN lhs
           /\ \A i \in ColIdx(lhs) : DOMAIN ares[i] = DOMAIN lhs[i]
    /\ aop.f = "min" =>
           \A i \in ColIdx(lhs), j \in RowIdx(lhs) :
               /\ ares[i][j] \in {lhs[i][j], rhs[i][j]}
               /\ ares[i][j] <= lhs[i][j]
               /\ ares[i][j] <= rhs[i][j]
    /\ aop.f = "max" =>
           \A i \in ColIdx(lhs), j \in RowIdx(lhs) :
               /\ ares[i][j] \in {lhs[i][j], rhs[i][j]}
               /\ ares[i][j] >= lhs[i][j]
               /\ ares[i][j] >= rhs[i][j]
    /\ aop.f = "abs" =>
           \A i \in ColIdx(lhs), j \in RowIdx(lhs) :
               /\ ares[i][j] \in {lhs[i][j], -lhs[i][j]}
               /\ ares[i][j] >= 0

\* min took a component of its first argument in one column and of its
\* second argument in another
C19_Witness ==
    /\ aop.f = "min"
    /\ Cols(lhs) = 3
    /\ \E j \in RowIdx(lhs) : ares[0][j] = lhs[0][j] /\ lhs[0][j] < rhs[0][j]
    /\ \E j \in RowIdx(lhs) : ares[2][j] = rhs[2][j] /\ rhs[2][j] < lhs[2][j]
    /\ \E j \in RowIdx(lhs) : rhs[1][j] # rhs[2][j]

\* C20: conversion between component types is elementwise and keeps the
\* shape: the explicit constructor and the implicit conversion operator
\* both give result[i][j] == convert(source[i][j]); the implicit direction
\* is the promotion, which loses nothing, so converting implicitly to the
\* wide type and explicitly back gives the original matrix.
C20_Conversion ==
    /\ aop.f \in {"explicit", "implicit", "roundtrip"} =>
           /\ DOMAIN ares = DOMAIN lhs
           /\ \A i \in ColIdx(lhs) : DOMAIN ares[i] = DOMAIN lhs[i]
    /\ aop.f \in {"explicit", "implicit"} =>
           \A i \in ColIdx(lhs), j \in RowIdx(lhs) :
               ares[i][j] = convert(aop.op, lhs[i][j])
    /\ aop.f = "implicit" =>
           /\ aop.op = "widen"
           /\ \A i \in ColIdx(lhs), j \in RowIdx(lhs) :
                  convert("narrow", ares[i][j]) = lhs[i][j]
    /\ aop.f = "roundtrip" => ares = lhs

\* a matrix of four columns with a negative component went to the wide
\* type and back
C20_Witness ==
    /\ aop.f = "roundtrip"
    /\ Cols(lhs) = 4
    /\ \E j \in RowIdx(lhs) : lhs[3][j] < 0
    /\ ares = lhs

(***************************************************************************)
(* Claims about a matrix written in place (SpecS).                         *)
(***************************************************************************)

\* the value component (i, j) has after the first n calls of cs: what the
\* latest of them that covered it wrote, or what it held at the start
RECURSIVE LastWritten(_, _, _, _)
LastWritten(cs, n, i, j) ==
    IF n = 0 THEN self0[i][j]
    ELSE LET e == cs[n]
         IN  IF e.op = "set_column" /\ e.idx = i THEN e.x[j]
             ELSE IF e.op = "set_row" /\ e.idx = j THEN e.x[i]
             ELSE IF e.op = "write" /\ e.via = "index" /\ e.idx = i /\ e.k = j THEN e.x
             ELSE LastWritten(cs, n - 1, i, j)

\* the call made last
LastCall == calls[Len(calls)]

\* C16: after any sequence of set_column(i, v) and set_row(j, v) calls (and
\* writes of single components through m[i]) every component holds what the
\* most recent call covering it wrote, or its first value if none did;
\* set_column(i, v) leaves every other column as it was and set_row(j, v)
\* every other row.
C16_LastWriteWins ==
    /\ self # NoMat =>
           \A i \in ColIdx(self), j \in RowIdx(self) :
               self[i][j] = LastWritten(calls, Len(calls), i, j)
    /\ (calls # <<>> /\ LastCall.op = "set_column") =>
           /\ self[LastCall.idx] = LastCall.x
           /\ \A i \in ColIdx(self) \ {LastCall.idx} : self[i] = ret.pre[i]
    /\ (calls # <<>> /\ LastCall.op = "set_row") =>
           \A i \in ColIdx(self), j \in RowIdx(self) :
               self[i][j] = IF j = LastCall.idx THEN LastCall.x[i] ELSE ret.pre[i][j]

\* a column was set, then a row, then another column: one component was
\* written three times, one keeps the row's value, one its first value
C16_Witness ==
    /\ Len(calls) = 3
    /\ Cols(self) = 3
    /\ Rows(self) = 3
    /\ calls[1].op = "set_column" /\ calls[1].idx = 2
    /\ calls[2].op = "set_row" /\ calls[2].idx = 1
    /\ calls[3].op = "set_column" /\ calls[3].idx = 2
    /\ self[2][1] = calls[3].x[1]
    /\ self[0][1] = calls[2].x[0]
    /\ self[0][0] = self0[0][0]

\* C17: m[i] is a reference into the matrix, column(i) and row(j) are
\* copies: m[i][j] = x changes exactly component (i, j) of m; writing to
\* the vector column(i) or row(j) returned changes that vector and leaves
\* m as it was.
C17_ReferenceAndCopies ==
    (calls # <<>> /\ LastCall.op = "write") =>
        /\ Held(href, self)[LastCall.k] = LastCall.x
        /\ IF LastCall.via = "index"
           THEN \A i \in ColIdx(self), j \in RowIdx(self) :
                    self[i][j] = IF i = LastCall.idx /\ j = LastCall.k
                                 THEN LastCall.x
                                 ELSE ret.pre[i][j]
           ELSE self = ret.pre

\* a component of the vector column(i) returned was overwritten with a
\* value the matrix does not hold there
C17_Witness ==
    /\ calls # <<>>
    /\ LastCall.op = "write"
    /\ LastCall.via = "column"
    /\ href.val[LastCall.k] = LastCall.x
    /\ self[LastCall.idx][LastCall.k] # LastCall.x
    /\ self = ret.pre

(***************************************************************************)
(* Claims about increments and decrements (SpecI).                         *)
(***************************************************************************)

\* C18: ++m and --m add 1 to, and subtract 1 from, every component and
\* yield the updated matrix; m++ and m-- change m the same way and return
\* the value m had before; a sequence with as many increments as
\* decrements leaves m as it started (integers, no overflow).
C18_IncrementDecrement ==
    /\ calls # <<>> =>
           /\ LastCall.op \in {"preinc", "postinc"} =>
                  \A i \in ColIdx(self), j \in RowIdx(self) :
                      self[i][j] = ret.pre[i][j] + 1
           /\ LastCall.op \in {"predec", "postdec"} =>
                  \A i \in ColIdx(self), j \in RowIdx(self) :
                      self[i][j] = ret.pre[i][j] - 1
           /\ LastCall.op \in {"preinc", "predec"} => ret.val = self
           /\ LastCall.op \in {"postinc", "postdec"} => ret.val = ret.pre
    /\ (self # NoMat /\ bal = 0) => self = self0

\* m++ and then --m were called on a matrix of four columns: the first
\* returned the starting value, the second restored it
C18_Witness ==
    /\ Len(calls) = 2
    /\ calls[1].op = "postinc"
    /\ calls[2].op = "predec"
    /\ Cols(self) = 4
    /\ self = self0
    /\ ret.val = self
    /\ ret.pre[3][1] = self0[3][1] + 1

(***************************************************************************)
(* Claims about callers running at once and about compound assignment      *)
(* (SpecC).                                                                *)
(***************************************************************************)

\* the matrix of caller t once its operation jb has run alone on the
\* matrices st0
Alone(jb, st0, t) ==
    CASE jb.kind = "assign_m" -> mat_op_mm(jb.op, st0[t], st0[jb.opd])
      [] jb.kind = "assign_s" -> mat_op_ms(jb.op, st0[t], jb.s)
      [] jb.kind = "times_m" -> matmult(st0[t], st0[jb.opd])
      [] jb.kind = "incdec" ->
            [i \in ColIdx(st0[t]) |-> [j \in RowIdx(st0[t]) |->
                IF jb.op = "++" THEN st0[t][i][j] + 1 ELSE st0[t][i][j] - 1]]
      [] jb.kind = "set_column" ->
            [i \in ColIdx(st0[t]) |-> [j \in RowIdx(st0[t]) |->
                IF i = jb.i THEN ArgVec(t, Rows(st0[t]))[j] ELSE st0[t][i][j]]]
      [] jb.kind = "set_row" ->
            [i \in ColIdx(st0[t]) |-> [j \in RowIdx(st0[t]) |->
                IF j = jb.j THEN ArgVec(t, Cols(st0[t]))[i] ELSE st0[t][i][j]]]
      [] jb.kind = "write" ->
            [i \in ColIdx(st0[t]) |-> [j \in RowIdx(st0[t]) |->
                IF i = jb.i /\ j = jb.j THEN ArgVec(t, 1)[0] ELSE st0[t][i][j]]]
      [] jb.kind = "read" -> st0[t]

\* the same after n of its steps: the columns the steps made have passed
\* are done, the others untouched
AloneAfter(jb, st0, t, n) ==
    [i \in ColIdx(st0[t]) |->
        IF n = NSteps(jb, st0[t]) \/ i < n THEN Alone(jb, st0, t)[i] ELSE st0[t][i]]

\* what the expression of caller t yields once it has run alone
AloneYields(jb, st0, t) ==
    CASE jb.kind \in {"assign_m", "assign_s", "times_m", "incdec"} -> ThisRef(t)
      [] jb.kind \in {"set_column", "set_row", "write"} -> Void
      [] jb.kind = "read" ->
            [kind |-> "val", to |-> 0, val |-> mat_op_mm(jb.op, st0[t], st0[0])]

Finished(t) == pc[t] = NSteps(job[t], store[t])

\* C21: with callers running at once, each mutating only the matrix it
\* owns and otherwise only reading, every interleaving of their steps
\* leaves each caller with the matrix and the result it gets running
\* alone: at every moment a caller's matrix is what its own steps so far
\* make of it, and the shared matrix, which is only read, is unchanged.
C21_CallersIndependent ==
    store # <<>> =>
        /\ store[0] = store0[0]
        /\ \A t \in DOMAIN job :
               /\ store[t] = AloneAfter(job[t], store0, t, pc[t])
               /\ Finished(t) => out[t] = AloneYields(job[t], store0, t)

\* two callers are both in the middle of their operations, one adding the
\* shared matrix to its own, the other setting a row of its own
C21_Witness ==
    /\ store # <<>>
    /\ DOMAIN job = {1, 2}
    /\ job[1].kind = "assign_m" /\ job[1].opd = 0
    /\ job[2].kind = "set_row"
    /\ pc[1] = 2
    /\ pc[2] = 1
    /\ store[1][1] # store0[1][1]
    /\ store[1][2] = store0[1][2]
    /\ store[2][0] # store0[2][0]

\* caller t has run a compound assignment to its end
Assigned(t) ==
    /\ job[t].kind \in {"assign_m", "assign_s", "times_m"}
    /\ Finished(t)

\* C25: every compound assignment agrees with its binary operator and
\* touches only the receiver: for each of + - * / % & | ^ << >> and each
\* operand x, a scalar or a matrix of the receiver's shape, after m op= x
\* the receiver is (old m) op x, x is unchanged (unless x is m itself) and
\* the expression yields the receiver itself.
C25_AssignAgreesWithBinary ==
    \A t \in DOMAIN job :
        Assigned(t) =>
            /\ store[t] =
                   CASE job[t].kind = "assign_m" ->
                            mat_op_mm(job[t].op, store0[t], store0[job[t].opd])
                     [] job[t].kind = "assign_s" ->
                            mat_op_ms(job[t].op, store0[t], job[t].s)
                     [] job[t].kind = "times_m" ->
                            matmult(store0[t], store0[job[t].opd])
            /\ store[0] = store0[0]
            /\ out[t] = ThisRef(t)

\* m <<= 2 has run on a matrix with a positive first component
C25_Witness ==
    /\ DOMAIN job = {1}
    /\ Assigned(1)
    /\ job[1].kind = "assign_s"
    /\ job[1].op = "<<"
    /\ job[1].s = 2
    /\ store0[1][0][0] > 0
    /\ store[1][0][0] = 4 * store0[1][0][0]
    /\ store[1][2][1] = 4 * store0[1][2][1]
    /\ out[1] = ThisRef(1)

\* C26: compound assignment is right when the operand is the receiver:
\* m += m leaves every component doubled, m -= m leaves zero(), and for a
\* square m, m *= m leaves the matrix product of the old m with itself.
C26_AliasedAssign ==
    \A t \in DOMAIN job :
        (Assigned(t) /\ job[t].kind # "assign_s" /\ job[t].opd = t) =>
            LET old == store0[t]
                new == store[t]
            IN  /\ job[t].op = "+" =>
                       \A i \in ColIdx(old), j \in RowIdx(old) :
                           new[i][j] = 2 * old[i][j]
                /\ job[t].op = "-" => new = zero(Cols(old), Rows(old))
                /\ job[t].kind = "times_m" =>
                       \A i \in ColIdx(old), j \in RowIdx(old) :
                           new[i][j] =
                               SumTo([k \in ColIdx(old) |-> old[k][j] * old[i][k]],
                                     Cols(old))

\* m *= m has run on a square matrix that is not its own square
C26_Witness ==
    /\ DOMAIN job = {1}
    /\ Assigned(1)
    /\ job[1].kind = "times_m"
    /\ job[1].opd = 1
    /\ Cols(store0[1]) = Rows(store0[1])
    /\ store[1] # store0[1]
    /\ store[1] = matmult(store0[1], store0[1])

(***************************************************************************)
(* Claims about axis_angle over several lanes (SpecL).                     *)
(***************************************************************************)

\* C22: axis_angle over a component type of several lanes computes each
\* lane by itself: a lane whose rotation vector has length zero gets
\* (0, 0, 1, 0), a lane of another length gets (v / |v|, |v|), whatever the
\* other lanes hold; two arguments that agree on a lane get results that
\* agree on that lane.
C22_LanesIndependent ==
    top = "axis_angle_lanes" =>
        /\ \A n \in 1..2, l \in Lanes :
               LET u == LaneOf(arg[n], l)
                   r == LaneOf(tres[n], l)
               IN  IF length(u) = Zero
                   THEN r = vec4(Zero, Zero, One, Zero)
                   ELSE r = vec4(fdiv(u[0], length(u)), fdiv(u[1], length(u)),
                                 fdiv(u[2], length(u)), length(u))
        /\ \A l \in Lanes :
               LaneOf(arg[1], l) = LaneOf(arg[2], l)
                   => LaneOf(tres[1], l) = LaneOf(tres[2], l)

\* two arguments agree on lane 0, of nonzero length, and differ on lane 1,
\* which has length zero in the first and not in the second
C22_Witness ==
    /\ top = "axis_angle_lanes"
    /\ LaneOf(arg[1], 0) = LaneOf(arg[2], 0)
    /\ length(LaneOf(arg[1], 0)) # Zero
    /\ LaneOf(arg[1], 1) # vec3(Zero, Zero, Zero)
    /\ length(LaneOf(arg[1], 1)) = Zero
    /\ length(LaneOf(arg[2], 1)) # Zero
    /\ LaneOf(tres[1], 0) = LaneOf(tres[2], 0)
    /\ LaneOf(tres[1], 1) = vec4(Zero, Zero, One, Zero)

====
